---- MODULE Spec2Model ----
(***************************************************************************)
(* Conway's Game of Life: the Grid container (grid.cpp), the World         *)
(* simulation engine (world.cpp) and the glider and the binary files of    *)
(* the Zoo (zoo.cpp), modelled operation by operation.                     *)
(*                                                                         *)
(* A Grid object is the record [width, height, grid]: the two private      *)
(* ints and the public std::vector<Cell>.  The vector is a sequence; the   *)
(* C++ index i is the sequence index i + 1.  Nothing in grid.cpp ties the  *)
(* length of the vector to width * height, so the three fields are kept    *)
(* separately, as the code keeps them.                                     *)
(*                                                                         *)
(* std::vector::operator[] does not check its index.  A read outside the   *)
(* vector yields any byte (ReadVec), a write outside it is a store the     *)
(* vector never shows (WriteVec); both set the ub flag of the running      *)
(* call, and a call that has set it may also end the process (outcome      *)
(* "crash").                                                               *)
(*                                                                         *)
(* resizes counts the resize calls made on the World, which the caller     *)
(* makes at most MaxResizes times.                                         *)
(***************************************************************************)
EXTENDS Integers, Sequences, FiniteSets, TLC

VARIABLES gridObj, world, nextWorld, last, resizes

vars == <<gridObj, world, nextWorld, last, resizes>>

\* Largest number of cells (width * height) a constructor or a resize is asked for.
MaxCells == 4

\* enum Cell : char { DEAD = ' ', ALIVE = '#' }
DEAD == 32
ALIVE == 35
\* A value-initialised Cell, Cell(): the char 0, neither DEAD nor ALIVE.
ZeroCell == 0

CellValues == {DEAD, ALIVE}

\* What a byte outside the vector may hold: either named value or another one.
AnyByte == {DEAD, ALIVE, ZeroCell}

Max(a, b) == IF a > b THEN a ELSE b

\* n copies of v: std::vector::resize(n, v) on an empty vector.
Fill(n, v) == [i \in 1..Max(n, 0) |-> v]

MkGrid(w, h, cells) == [width |-> w, height |-> h, grid |-> cells]

\* Grid::Grid()
GridDefault == MkGrid(0, 0, Fill(0, DEAD))

\* Grid::Grid(int square_size)
GridSquare(square_size) ==
    MkGrid(square_size, square_size, Fill(square_size * square_size, DEAD))

\* Grid::Grid(int width, int height)
GridRect(width, height) == MkGrid(width, height, Fill(width * height, DEAD))

get_width(g) == g.width

get_height(g) == g.height

\* Grid::get_total_cells: the product of the two ints, not the vector's size.
get_total_cells(g) == g.width * g.height

\* Grid::get_alive_cells: a scan of the vector.
get_alive_cells(g) == Cardinality({i \in 1..Len(g.grid) : g.grid[i] = ALIVE})

get_dead_cells(g) == get_total_cells(g) - get_alive_cells(g)

\* Grid::get_index
get_index(g, x, y) == y * get_width(g) + x

\* The test get, set and both operator() make before they touch the vector.
OutOfScope(g, x, y) ==
    x > get_width(g) \/ x < 0 \/ y > get_height(g) \/ y < 0

InVec(cells, i) == 0 <= i /\ i < Len(cells)

\* cells[i] as an rvalue: the set of values the read may give.
ReadVec(cells, i) == IF InVec(cells, i) THEN {cells[i + 1]} ELSE AnyByte

\* cells[i] = v: the vector afterwards.
WriteVec(cells, i, v) == IF InVec(cells, i) THEN [cells EXCEPT ![i + 1] = v] ELSE cells

\* The result of a call: the object afterwards, the returned value, whether an
\* exception left the call, whether the call read or wrote outside a vector.
Res(g, ret, throw, ub) == [g |-> g, ret |-> ret, throw |-> throw, ub |-> ub]

NoRet == <<>>

\* Grid::operator()(x, y), const and non-const, read through the reference.
Index(g, x, y) ==
    IF OutOfScope(g, x, y)
    THEN {Res(g, NoRet, TRUE, FALSE)}
    ELSE {Res(g, v, FALSE, ~InVec(g.grid, get_index(g, x, y))) :
             v \in ReadVec(g.grid, get_index(g, x, y))}

\* Grid::get(x, y)
Get(g, x, y) ==
    IF OutOfScope(g, x, y)
    THEN {Res(g, NoRet, TRUE, FALSE)}
    ELSE Index(g, x, y)

\* Grid::set(x, y, value)
Set(g, x, y, value) ==
    IF OutOfScope(g, x, y)
    THEN Res(g, NoRet, TRUE, FALSE)
    ELSE Res([g EXCEPT !.grid = WriteVec(g.grid, get_index(g, x, y), value)],
             NoRet, FALSE, ~InVec(g.grid, get_index(g, x, y)))

(***************************************************************************)
(* Grid::resize.  Both overloads copy the old vector to temp, replace the  *)
(* vector by new_width * new_height DEAD cells and then copy cell by cell, *)
(* switching this->width to the new width around each set and back to      *)
(* oldWidth after it.  The loop state st is [width, grid, ub, thrown]:     *)
(* this->width, the new vector, and whether an exception has left the      *)
(* loop.  c holds what the loop does not change: temp, the new width, the  *)
(* height (no loop assigns it) and oldWidth.                               *)
(***************************************************************************)
StGrid(c, st) == MkGrid(st.width, c.height, st.grid)

\* The body of the try block: a set that throws is swallowed by the catch, and
\* the assignment this->width = oldWidth after it is then skipped.
TryCopyAlive(c, st, x, y, v) ==
    LET readUb == ~InVec(c.temp, get_index(StGrid(c, st), x, y))
        r == Set(MkGrid(c.newW, c.height, st.grid), x, y, ALIVE)
    IN  IF v = ALIVE
        THEN IF r.throw
             THEN [st EXCEPT !.width = c.newW, !.ub = @ \/ readUb]
             ELSE [st EXCEPT !.width = c.oldWidth, !.grid = r.g.grid,
                             !.ub = @ \/ readUb \/ r.ub]
        ELSE [st EXCEPT !.ub = @ \/ readUb]

\* The body of the loops of the else branch: no try, so a set that throws
\* leaves the resize with this->width already the new width.
CopyCell(c, st, x, y, v) ==
    LET readUb == ~InVec(c.temp, get_index(StGrid(c, st), x, y))
        r == Set(MkGrid(c.newW, c.height, st.grid), x, y,
                 IF v = ALIVE THEN ALIVE ELSE DEAD)
    IN  IF r.throw
        THEN [st EXCEPT !.width = c.newW, !.ub = @ \/ readUb, !.thrown = TRUE]
        ELSE [st EXCEPT !.width = c.oldWidth, !.grid = r.g.grid,
                        !.ub = @ \/ readUb \/ r.ub]

\* resize(square_size), first branch: y < get_height(), x < get_width().
RECURSIVE ShrinkLoopSquare(_, _, _, _)
ShrinkLoopSquare(c, st, x, y) ==
    IF y >= c.height THEN {st}
    ELSE IF x >= st.width THEN ShrinkLoopSquare(c, st, 0, y + 1)
    ELSE UNION {ShrinkLoopSquare(c, TryCopyAlive(c, st, x, y, v), x + 1, y) :
                   v \in ReadVec(c.temp, get_index(StGrid(c, st), x, y))}

\* resize(new_width, new_height), first branch: y < new_height, x < new_width.
RECURSIVE ShrinkLoopRect(_, _, _, _, _)
ShrinkLoopRect(c, new_height, st, x, y) ==
    IF y >= new_height THEN {st}
    ELSE IF x >= c.newW THEN ShrinkLoopRect(c, new_height, st, 0, y + 1)
    ELSE UNION {ShrinkLoopRect(c, new_height, TryCopyAlive(c, st, x, y, v), x + 1, y) :
                   v \in ReadVec(c.temp, get_index(StGrid(c, st), x, y))}

\* Both overloads, else branch: y < get_height(), x < get_width().
RECURSIVE GrowLoop(_, _, _, _)
GrowLoop(c, st, x, y) ==
    IF st.thrown \/ y >= c.height THEN {st}
    ELSE IF x >= st.width THEN GrowLoop(c, st, 0, y + 1)
    ELSE UNION {GrowLoop(c, CopyCell(c, st, x, y, v), x + 1, y) :
                   v \in ReadVec(c.temp, get_index(StGrid(c, st), x, y))}

LoopStart(g, n) == [width |-> g.width, grid |-> Fill(n, DEAD), ub |-> FALSE, thrown |-> FALSE]

LoopConst(g, new_width) ==
    [temp |-> g.grid, newW |-> new_width, height |-> g.height, oldWidth |-> g.width]

\* Grid::resize(int square_size).  The last statement assigns this->width only.
ResizeSquare(g, square_size) ==
    LET c == LoopConst(g, square_size)
        st0 == LoopStart(g, square_size * square_size)
        ends == IF get_total_cells(g) > square_size * square_size
                THEN ShrinkLoopSquare(c, st0, 0, 0)
                ELSE GrowLoop(c, st0, 0, 0)
    IN  {IF st.thrown
         THEN Res(MkGrid(st.width, g.height, st.grid), NoRet, TRUE, st.ub)
         ELSE Res(MkGrid(square_size, g.height, st.grid), NoRet, FALSE, st.ub) :
            st \in ends}

\* Grid::resize(int new_width, int new_height)
Resize(g, new_width, new_height) ==
    LET c == LoopConst(g, new_width)
        st0 == LoopStart(g, new_width * new_height)
        ends == IF get_total_cells(g) > new_width * new_height
                THEN ShrinkLoopRect(c, new_height, st0, 0, 0)
                ELSE GrowLoop(c, st0, 0, 0)
    IN  {IF st.thrown
         THEN Res(MkGrid(st.width, g.height, st.grid), NoRet, TRUE, st.ub)
         ELSE Res(MkGrid(new_width, new_height, st.grid), NoRet, FALSE, st.ub) :
            st \in ends}

\* The values a sequence of reads of cells at the indexes idxs may give, in order.
RECURSIVE ReadAll(_, _)
ReadAll(cells, idxs) ==
    IF idxs = <<>> THEN {<<>>}
    ELSE {<<v>> \o t : v \in ReadVec(cells, Head(idxs)), t \in ReadAll(cells, Tail(idxs))}

\* The indexes crop reads, in the order of its loops: y0 <= y < y1, x0 <= x < x1.
CropIndexes(g, x0, y0, x1, y1) ==
    LET gridWidth == x1 - x0
        gridHeight == y1 - y0
        n == IF gridWidth > 0 /\ gridHeight > 0 THEN gridWidth * gridHeight ELSE 0
    IN  [k \in 1..n |->
            get_index(g, x0 + ((k - 1) % gridWidth), y0 + ((k - 1) \div gridWidth))]

\* The one test crop makes of its window.
CropRejects(g, x0, y0, x1, y1) ==
    \/ (x1 - x0) * (y1 - y0) > get_total_cells(g)
    \/ (x1 - x0) * (y1 - y0) < 0

\* Grid::crop(x0, y0, x1, y1): the returned Grid is ret; *this is const.
Crop(g, x0, y0, x1, y1) ==
    IF CropRejects(g, x0, y0, x1, y1)
    THEN {Res(g, NoRet, TRUE, FALSE)}
    ELSE LET idxs == CropIndexes(g, x0, y0, x1, y1)
             ub == \E k \in 1..Len(idxs) : ~InVec(g.grid, idxs[k])
         IN  {Res(g, MkGrid(x1 - x0, y1 - y0, cells), FALSE, ub) :
                 cells \in ReadAll(g.grid, idxs)}

\* merge, first test: a negative corner.
MergeNegative(x0, y0) == x0 < 0 \/ y0 < 0

\* The test with its width half forgotten.
MergeOutsideHeightOnly(g, other, x0, y0) ==
    other.height + y0 > get_height(g)

\* merge, the test at the head of every iteration.
MergeOutside(g, other, x0, y0) ==
    other.height + y0 > get_height(g) \/ other.width + x0 > get_width(g)

\* r with the ub of earlier reads of the same iteration added.
WithUb(r, ub) == [r EXCEPT !.ub = @ \/ ub]

\* One iteration of merge's loops that passed the test: the writes to (x, y).
MergeCell(g, other, x0, y0, alive_only, x, y) ==
    UNION {
        IF og.throw THEN {Res(g, NoRet, TRUE, og.ub)}
        ELSE IF ~alive_only \/ og.ret = ALIVE
        THEN {WithUb(Set(g, x, y, og.ret), og.ub)}
        ELSE UNION {
            IF mine.throw THEN {Res(g, NoRet, TRUE, og.ub \/ mine.ub)}
            ELSE IF mine.ret = ALIVE
            THEN {WithUb(Set(g, x, y, ALIVE), og.ub \/ mine.ub)}
            ELSE {IF og2.throw THEN Res(g, NoRet, TRUE, og.ub \/ mine.ub \/ og2.ub)
                  ELSE WithUb(Set(g, x, y, og2.ret), og.ub \/ mine.ub \/ og2.ub) :
                     og2 \in Get(other, x - x0, y - y0)} :
            mine \in Get(g, x, y)} :
        og \in Get(other, x - x0, y - y0)}

RECURSIVE MergeLoop(_, _, _, _, _, _, _, _)
MergeLoop(g, other, x0, y0, alive_only, x, y, ub) ==
    IF y >= other.height + y0 THEN {Res(g, NoRet, FALSE, ub)}
    ELSE IF x >= other.width + x0
    THEN MergeLoop(g, other, x0, y0, alive_only, x0, y + 1, ub)
    ELSE IF MergeOutside(g, other, x0, y0) THEN {Res(g, NoRet, TRUE, ub)}
    ELSE UNION {
        IF r.throw THEN {WithUb(r, ub)}
        ELSE MergeLoop(r.g, other, x0, y0, alive_only, x + 1, y, ub \/ r.ub) :
        r \in MergeCell(g, other, x0, y0, alive_only, x, y)}

\* Grid::merge(other, x0, y0, alive_only); other is passed by value.
Merge(g, other, x0, y0, alive_only) ==
    IF MergeNegative(x0, y0)
    THEN {Res(g, NoRet, TRUE, FALSE)}
    ELSE MergeLoop(g, other, x0, y0, alive_only, x0, y0, FALSE)

\* The C++ % on ints: the remainder of the division that truncates toward zero.
CRem(a, b) == IF a >= 0 THEN a % b ELSE -((-a) % b)

\* std::reverse(begin, end)
Reverse(cells) == [i \in 1..Len(cells) |-> cells[Len(cells) + 1 - i]]

\* rotate's temp before its loops: a copy of the vector, width and height swapped.
RotateTemp(g) == MkGrid(get_height(g), get_width(g), g.grid)

\* One iteration of rotate's loops: temp.set(y, x, get(...)).  st is
\* [temp, ub, thrown]; clockwise tells the first pair of loops from the second.
RotateCell(g, st, clockwise, x, y) ==
    {IF r.throw THEN [st EXCEPT !.ub = @ \/ r.ub, !.thrown = TRUE]
     ELSE LET w == Set(st.temp, y, x, r.ret)
          IN  IF w.throw THEN [st EXCEPT !.ub = @ \/ r.ub, !.thrown = TRUE]
              ELSE [st EXCEPT !.temp = w.g, !.ub = @ \/ r.ub \/ w.ub] :
        r \in IF clockwise THEN Get(g, x, get_height(g) - 1 - y)
              ELSE Get(g, get_width(g) - 1 - x, y)}

\* rotate's loops: sts are the states possible before the iteration at (x, y).
RECURSIVE RotateLoop(_, _, _, _, _)
RotateLoop(g, sts, clockwise, x, y) ==
    IF y >= get_height(g) THEN sts
    ELSE IF x >= get_width(g) THEN RotateLoop(g, sts, clockwise, 0, y + 1)
    ELSE RotateLoop(g,
                    UNION {IF st.thrown THEN {st} ELSE RotateCell(g, st, clockwise, x, y) :
                              st \in sts},
                    clockwise, x + 1, y)

RotateQuarter(g, clockwise) ==
    {Res(g, IF st.thrown THEN NoRet ELSE st.temp, st.thrown, st.ub) :
        st \in RotateLoop(g, {[temp |-> RotateTemp(g), ub |-> FALSE, thrown |-> FALSE]},
                          clockwise, 0, 0)}

\* The first branch of rotate with its second alternative forgotten.
RotatesClockwiseOnlyOne(rotation) == rotation = 1

\* rotate, first branch, on rotation % 4.
RotatesClockwise(rotation) == rotation = 1 \/ rotation = -3

\* rotate, second branch.
RotatesAnticlockwise(rotation) == rotation = -1 \/ rotation = 3

\* rotate, third branch.
RotatesHalf(rotation) == rotation = 2 \/ rotation = -2

\* Grid::rotate(rotation): the returned Grid is ret; *this is const.
Rotate(g, rotation) ==
    LET rem == CRem(rotation, 4)
    IN  IF RotatesClockwise(rem) THEN RotateQuarter(g, TRUE)
        ELSE IF RotatesAnticlockwise(rem) THEN RotateQuarter(g, FALSE)
        ELSE IF RotatesHalf(rem)
        THEN {Res(g, MkGrid(get_width(g), get_height(g), Reverse(g.grid)), FALSE, FALSE)}
        ELSE IF rem = 0 THEN {Res(g, g, FALSE, FALSE)}
        ELSE {Res(g, RotateTemp(g), FALSE, FALSE)}

\* g.rotate(a).rotate(b): ret is the second grid returned.
RotateTwice(g, a, b) ==
    UNION {IF first.throw THEN {first}
           ELSE {Res(g, second.ret, second.throw, first.ub \/ second.ub) :
                    second \in Rotate(first.ret, b)} :
              first \in Rotate(g, a)}

(***************************************************************************)
(* World: the two Grid members world (current state) and nextWorld.        *)
(* A World result is [world, nextWorld, ret, throw, ub].                   *)
(***************************************************************************)
WRes(w, nw, ret, throw, ub) ==
    [world |-> w, nextWorld |-> nw, ret |-> ret, throw |-> throw, ub |-> ub]

\* std::vector<Cell>::resize(n): cut to n cells, or extended by value-initialised ones.
VecResize(cells, n) ==
    IF n <= Len(cells) THEN SubSeq(cells, 1, n)
    ELSE cells \o Fill(n - Len(cells), ZeroCell)

\* World::World(Grid initial_state); the other constructors pass a fresh Grid.
WorldFrom(initial_state) == WRes(initial_state, initial_state, NoRet, FALSE, FALSE)

\* World::resize(int square_size)
WorldResizeSquare(w, nw, square_size) ==
    {IF r.throw THEN WRes(r.g, nw, NoRet, TRUE, r.ub)
     ELSE WRes(r.g, [nw EXCEPT !.grid = VecResize(@, square_size * square_size)],
               NoRet, FALSE, r.ub) :
        r \in ResizeSquare(w, square_size)}

\* World::resize(int new_width, int new_height)
WorldResize(w, nw, new_width, new_height) ==
    {IF r.throw THEN WRes(r.g, nw, NoRet, TRUE, r.ub)
     ELSE WRes(r.g, [nw EXCEPT !.grid = VecResize(@, new_width * new_height)],
               NoRet, FALSE, r.ub) :
        r \in Resize(w, new_width, new_height)}

\* (newX - x, newY - y) in the order of the loops of count_neighbours, centre left out.
NeighbourOffsets ==
    << <<-1, -1>>, <<0, -1>>, <<1, -1>>, <<-1, 0>>, <<1, 0>>, <<-1, 1>>, <<0, 1>>, <<1, 1>> >>

\* Whether the non-toroidal branch looks at (newX, newY).
InsideWorld(w, newX, newY) ==
    (newX < get_width(w) /\ newX > -1) /\ (newY > -1 /\ newY < get_height(w))

\* The coordinate the toroidal branch reads for (newX, newY).
WrapX(w, newX) == (newX + get_width(w)) % get_width(w)

WrapY(w, newY) == (newY + get_height(w)) % get_height(w)

\* One neighbour: acc is [n, throw, ub], alive so far, an exception from
\* world.get, a read outside the vector.  An exception ends the count.
CountOne(w, x, y, toroidal, k, acc) ==
    LET newX == x + NeighbourOffsets[k][1]
        newY == y + NeighbourOffsets[k][2]
        reads == IF toroidal THEN Get(w, WrapX(w, newX), WrapY(w, newY))
                 ELSE Get(w, newX, newY)
    IN  IF acc.throw \/ (~toroidal /\ ~InsideWorld(w, newX, newY))
        THEN {acc}
        ELSE {IF r.throw THEN [acc EXCEPT !.throw = TRUE, !.ub = @ \/ r.ub]
              ELSE [acc EXCEPT !.n = IF r.ret = ALIVE THEN @ + 1 ELSE @,
                               !.ub = @ \/ r.ub] :
                 r \in reads}

\* The loops of count_neighbours: accs are the counts possible before neighbour k.
RECURSIVE CountLoop(_, _, _, _, _, _)
CountLoop(w, x, y, toroidal, k, accs) ==
    IF k > Len(NeighbourOffsets) THEN accs
    ELSE CountLoop(w, x, y, toroidal, k + 1,
                   UNION {CountOne(w, x, y, toroidal, k, acc) : acc \in accs})

\* World::count_neighbours(x, y, toroidal), on the current state grid w.
count_neighbours(w, x, y, toroidal) ==
    CountLoop(w, x, y, toroidal, 1, {[n |-> 0, throw |-> FALSE, ub |-> FALSE]})

\* A rule under which an ALIVE cell with two alive neighbours dies.
RuleAliveOnThreeOnly(alive) == IF alive = 3 THEN ALIVE ELSE DEAD

\* What step writes for an ALIVE cell with the given number of alive neighbours.
RuleAlive(alive) ==
    IF alive < 2 THEN DEAD
    ELSE IF alive = 2 \/ alive = 3 THEN ALIVE
    ELSE DEAD

\* st is [next, ub, thrown]: nextWorld, and whether an exception has left step.
StepWrite(st, x, y, v, ub) ==
    LET r == Set(st.next, x, y, v)
    IN  IF r.throw THEN [st EXCEPT !.ub = @ \/ ub, !.thrown = TRUE]
        ELSE [st EXCEPT !.next = r.g, !.ub = @ \/ ub \/ r.ub]

StepSkip(st, ub) == [st EXCEPT !.ub = @ \/ ub]

StepThrow(st, ub) == [st EXCEPT !.ub = @ \/ ub, !.thrown = TRUE]

\* One iteration of the loops of step at (x, y).
StepCell(w, st, toroidal, x, y) ==
    UNION {
        IF c.throw THEN {StepThrow(st, c.ub)}
        ELSE UNION {
            IF cur.throw THEN {StepThrow(st, c.ub \/ cur.ub)}
            ELSE IF cur.ret = ALIVE
            THEN {StepWrite(st, x, y, RuleAlive(c.n), c.ub \/ cur.ub)}
            ELSE IF toroidal
            THEN {IF cur2.throw THEN StepThrow(st, c.ub \/ cur.ub \/ cur2.ub)
                  ELSE IF cur2.ret = DEAD /\ c.n = 3
                  THEN StepWrite(st, x, y, ALIVE, c.ub \/ cur.ub \/ cur2.ub)
                  ELSE StepSkip(st, c.ub \/ cur.ub \/ cur2.ub) :
                     cur2 \in Get(w, x, y)}
            ELSE {IF c.n = 3 THEN StepWrite(st, x, y, ALIVE, c.ub \/ cur.ub)
                  ELSE StepSkip(st, c.ub \/ cur.ub)} :
            cur \in Get(w, x, y)} :
        c \in count_neighbours(w, x, y, toroidal)}

\* The inner loop of step over x in row y: sts are the states possible
\* before the iteration at (x, y).
RECURSIVE StepRow(_, _, _, _, _)
StepRow(w, sts, toroidal, x, y) ==
    IF sts = {} \/ x >= get_width(w) THEN sts
    ELSE LET after == UNION {IF st.thrown THEN {st} ELSE StepCell(w, st, toroidal, x, y) :
                                st \in sts}
         IN  StepRow(w, after, toroidal, x + 1, y)

\* The outer loop of step over y: sts are the states possible before row y.
RECURSIVE StepLoop(_, _, _, _)
StepLoop(w, sts, toroidal, y) ==
    IF sts = {} \/ y >= get_height(w) THEN sts
    ELSE LET after == StepRow(w, sts, toroidal, 0, y)
         IN  StepLoop(w, after, toroidal, y + 1)

\* A step that ends with std::swap(world, nextWorld) instead of the assignment.
StepSwapping(w, nw, toroidal) ==
    {IF st.thrown THEN WRes(w, st.next, NoRet, TRUE, st.ub)
     ELSE WRes(st.next, w, NoRet, FALSE, st.ub) :
        st \in StepLoop(w, {[next |-> nw, ub |-> FALSE, thrown |-> FALSE]}, toroidal, 0)}

\* World::step(toroidal): the loops, then this->world = nextWorld.
Step(w, nw, toroidal) ==
    {IF st.thrown THEN WRes(w, st.next, NoRet, TRUE, st.ub)
     ELSE WRes(st.next, st.next, NoRet, FALSE, st.ub) :
        st \in StepLoop(w, {[next |-> nw, ub |-> FALSE, thrown |-> FALSE]}, toroidal, 0)}

\* The loop test of advance, letting one iteration too many through.
AdvanceRunsOnceMore(i, steps) == i <= steps

\* The loop test of advance: i < steps.
AdvanceRuns(i, steps) == i < steps

\* World::advance(steps, toroidal): rs are the Worlds possible after i steps.
RECURSIVE AdvanceLoop(_, _, _, _)
AdvanceLoop(rs, steps, toroidal, i) ==
    IF ~AdvanceRuns(i, steps) THEN rs
    ELSE AdvanceLoop(UNION {IF r.throw THEN {r}
                            ELSE {[r2 EXCEPT !.ub = @ \/ r.ub] :
                                     r2 \in Step(r.world, r.nextWorld, toroidal)} :
                               r \in rs},
                     steps, toroidal, i + 1)

Advance(w, nw, steps, toroidal) ==
    AdvanceLoop({WRes(w, nw, NoRet, FALSE, FALSE)}, steps, toroidal, 0)

\* w.advance(a, toroidal); w.advance(b, toroidal): the second call is made when
\* the first returned.
AdvanceTwice(w, nw, a, b, toroidal) ==
    UNION {IF first.throw THEN {first}
           ELSE {[second EXCEPT !.ub = @ \/ first.ub] :
                    second \in Advance(first.world, first.nextWorld, b, toroidal)} :
              first \in Advance(w, nw, a, toroidal)}

(***************************************************************************)
(* The caller.  last is the call that has just ended, as its caller sees   *)
(* it: the operation, its arguments, the object before the call (pre), a   *)
(* second object the call involved (aux), the value returned and how the   *)
(* call ended.  A caller that has looked at the result makes its next      *)
(* call; a process that crashed makes none.                                *)
(***************************************************************************)
NoCall ==
    [op |-> "none", args |-> <<>>, pre |-> GridDefault, aux |-> GridDefault,
     ret |-> NoRet, outcome |-> "ok", ub |-> FALSE]

Outcomes(r) ==
    {IF r.throw THEN "throw" ELSE "ok"} \cup (IF r.ub THEN {"crash"} ELSE {})

Call(op, args, pre, aux, r, o) ==
    [op |-> op, args |-> args, pre |-> pre, aux |-> aux,
     ret |-> r.ret, outcome |-> o, ub |-> r.ub]

\* The dimensions constructors and resizes are called with.
Shapes == {s \in (0..MaxCells) \X (0..MaxCells) : s[1] * s[2] <= MaxCells}

Squares == {n \in 0..MaxCells : n * n <= MaxCells}

\* Coordinates around the object's extent, one step beyond it on every side.
Xs(g) == -1..(g.width + 1)

Ys(g) == -1..(g.height + 1)

Ready == last.op = "none"

GridSet ==
    /\ Ready
    /\ \E x \in Xs(gridObj), y \in Ys(gridObj), v \in CellValues :
          LET r == Set(gridObj, x, y, v)
          IN  /\ gridObj' = r.g
              /\ \E o \in Outcomes(r) :
                    last' = Call("set", <<x, y, v>>, gridObj, GridDefault, r, o)
    /\ UNCHANGED <<world, nextWorld, resizes>>

GridGet ==
    /\ Ready
    /\ \E x \in Xs(gridObj), y \in Ys(gridObj) :
          \E r \in Get(gridObj, x, y) :
             \E o \in Outcomes(r) :
                last' = Call("get", <<x, y>>, gridObj, GridDefault, r, o)
    /\ UNCHANGED <<gridObj, world, nextWorld, resizes>>

GridIndex ==
    /\ Ready
    /\ \E x \in Xs(gridObj), y \in Ys(gridObj) :
          \E r \in Index(gridObj, x, y) :
             \E o \in Outcomes(r) :
                last' = Call("index", <<x, y>>, gridObj, GridDefault, r, o)
    /\ UNCHANGED <<gridObj, world, nextWorld, resizes>>

GridResizeSquare ==
    /\ Ready
    /\ \E n \in Squares :
          \E r \in ResizeSquare(gridObj, n) :
             /\ gridObj' = r.g
             /\ \E o \in Outcomes(r) :
                   last' = Call("resize1", <<n>>, gridObj, GridDefault, r, o)
    /\ UNCHANGED <<world, nextWorld, resizes>>

GridResize ==
    /\ Ready
    /\ \E s \in Shapes :
          \E r \in Resize(gridObj, s[1], s[2]) :
             /\ gridObj' = r.g
             /\ \E o \in Outcomes(r) :
                   last' = Call("resize2", <<s[1], s[2]>>, gridObj, GridDefault, r, o)
    /\ UNCHANGED <<world, nextWorld, resizes>>

\* Largest number of cells of the grid passed to merge.
MaxOtherCells == 2

\* The grids passed to merge: built by a constructor and set calls.
OtherShapes == {s \in (0..MaxOtherCells) \X (0..MaxOtherCells) : s[1] * s[2] <= MaxOtherCells}

Others ==
    UNION {{MkGrid(s[1], s[2], cells) : cells \in [1..(s[1] * s[2]) -> CellValues]} :
              s \in OtherShapes}

GridCrop ==
    /\ Ready
    /\ \E x0 \in Xs(gridObj), x1 \in Xs(gridObj), y0 \in Ys(gridObj), y1 \in Ys(gridObj) :
          \E r \in Crop(gridObj, x0, y0, x1, y1) :
             \E o \in Outcomes(r) :
                last' = Call("crop", <<x0, y0, x1, y1>>, gridObj, GridDefault, r, o)
    /\ UNCHANGED <<gridObj, world, nextWorld, resizes>>

GridMerge ==
    /\ Ready
    /\ \E other \in Others, x0 \in Xs(gridObj), y0 \in Ys(gridObj), alive_only \in BOOLEAN :
          \E r \in Merge(gridObj, other, x0, y0, alive_only) :
             /\ gridObj' = r.g
             /\ \E o \in Outcomes(r) :
                   last' = Call("merge", <<x0, y0, alive_only>>, gridObj, other, r, o)
    /\ UNCHANGED <<world, nextWorld, resizes>>

\* The caller has seen the result of the call and goes on.
CallerContinues ==
    /\ last.op # "none"
    /\ last.outcome # "crash"
    /\ last' = NoCall
    /\ UNCHANGED <<gridObj, world, nextWorld, resizes>>

\* Grid(), Grid(square_size), Grid(width, height)
InitGrid ==
    /\ gridObj \in {GridDefault} \cup {GridSquare(n) : n \in Squares}
                      \cup {GridRect(s[1], s[2]) : s \in Shapes}
    /\ world = GridDefault
    /\ nextWorld = GridDefault
    /\ last = NoCall
    /\ resizes = 0

NextGrid ==
    \/ GridSet
    \/ GridGet
    \/ GridIndex
    \/ GridResizeSquare
    \/ GridResize
    \/ CallerContinues

SpecGrid == InitGrid /\ [][NextGrid]_vars

\* The same object, its caller also cropping it.
NextCrop ==
    \/ GridSet
    \/ GridResizeSquare
    \/ GridResize
    \/ GridCrop
    \/ CallerContinues

SpecCrop == InitGrid /\ [][NextCrop]_vars

\* The same object, its caller also merging other grids into it.
NextMerge ==
    \/ GridSet
    \/ GridResizeSquare
    \/ GridResize
    \/ GridMerge
    \/ CallerContinues

SpecMerge == InitGrid /\ [][NextMerge]_vars

\* Largest number of quarter turns, either way, rotate is asked for.
MaxTurns == 5

Turns == (-MaxTurns)..MaxTurns

GridRotate ==
    /\ Ready
    /\ \E rotation \in Turns :
          \E r \in Rotate(gridObj, rotation) :
             \E o \in Outcomes(r) :
                last' = Call("rotate", <<rotation>>, gridObj, GridDefault, r, o)
    /\ UNCHANGED <<gridObj, world, nextWorld, resizes>>

GridRotateTwice ==
    /\ Ready
    /\ \E a \in Turns, b \in Turns :
          \E r \in RotateTwice(gridObj, a, b) :
             \E o \in Outcomes(r) :
                last' = Call("rotate2", <<a, b>>, gridObj, GridDefault, r, o)
    /\ UNCHANGED <<gridObj, world, nextWorld, resizes>>

\* The same object, its caller also rotating it.
NextRotate ==
    \/ GridSet
    \/ GridResizeSquare
    \/ GridResize
    \/ GridRotate
    \/ CallerContinues

SpecRotate == InitGrid /\ [][NextRotate]_vars

\* The same object, its caller rotating what rotate returned.
NextRotateTwice ==
    \/ GridSet
    \/ GridResizeSquare
    \/ GridResize
    \/ GridRotateTwice
    \/ CallerContinues

SpecRotateTwice == InitGrid /\ [][NextRotateTwice]_vars

\* g.resize(W, H); g.resize(w, h): the second call is made when the first returned.
ResizeTwice(g, W, H, w, h) ==
    UNION {IF first.throw THEN {first}
           ELSE {WithUb(second, first.ub) : second \in Resize(first.g, w, h)} :
              first \in Resize(g, W, H)}

\* The caller grows the grid and shrinks it back to the width and height it had.
GridGrowShrink ==
    /\ Ready
    /\ \E s \in Shapes :
          /\ s[1] >= get_width(gridObj)
          /\ s[2] >= get_height(gridObj)
          /\ \E r \in ResizeTwice(gridObj, s[1], s[2], get_width(gridObj), get_height(gridObj)) :
                /\ gridObj' = r.g
                /\ \E o \in Outcomes(r) :
                      last' = Call("growshrink", <<s[1], s[2]>>, gridObj, GridDefault, r, o)
    /\ UNCHANGED <<world, nextWorld, resizes>>

\* The same object, its caller also growing it and shrinking it back.
NextGrowShrink ==
    \/ GridSet
    \/ GridResizeSquare
    \/ GridResize
    \/ GridGrowShrink
    \/ CallerContinues

SpecGrowShrink == InitGrid /\ [][NextGrowShrink]_vars



(***************************************************************************)
(* A World and its caller.                                                 *)
(***************************************************************************)
\* Largest number of cells of a World's grid.
MaxWorldCells == 4

\* Largest number of resize calls made on one World.
MaxResizes == 1

\* Largest argument of advance.
MaxSteps == 2

WorldShapes ==
    {s \in (0..MaxWorldCells) \X (0..MaxWorldCells) : s[1] * s[2] <= MaxWorldCells}

WorldSquares == {n \in 0..MaxWorldCells : n * n <= MaxWorldCells}

\* The grids passed to World(Grid): built by a constructor and set calls.
InitialStates ==
    UNION {{MkGrid(s[1], s[2], cells) : cells \in [1..(s[1] * s[2]) -> CellValues]} :
              s \in WorldShapes}

WorldCall(op, args, r, o) ==
    [op |-> op, args |-> args, pre |-> world, aux |-> nextWorld,
     ret |-> r.ret, outcome |-> o, ub |-> r.ub]

WorldDoResizeSquare ==
    /\ Ready
    /\ resizes < MaxResizes
    /\ resizes' = resizes + 1
    /\ \E n \in WorldSquares :
          \E r \in WorldResizeSquare(world, nextWorld, n) :
             /\ world' = r.world
             /\ nextWorld' = r.nextWorld
             /\ \E o \in Outcomes(r) : last' = WorldCall("wresize1", <<n>>, r, o)
    /\ UNCHANGED gridObj

WorldDoResize ==
    /\ Ready
    /\ resizes < MaxResizes
    /\ resizes' = resizes + 1
    /\ \E s \in WorldShapes :
          \E r \in WorldResize(world, nextWorld, s[1], s[2]) :
             /\ world' = r.world
             /\ nextWorld' = r.nextWorld
             /\ \E o \in Outcomes(r) : last' = WorldCall("wresize2", <<s[1], s[2]>>, r, o)
    /\ UNCHANGED gridObj

WorldStep ==
    /\ Ready
    /\ \E toroidal \in BOOLEAN :
          \E r \in Step(world, nextWorld, toroidal) :
             /\ world' = r.world
             /\ nextWorld' = r.nextWorld
             /\ \E o \in Outcomes(r) : last' = WorldCall("step", <<toroidal>>, r, o)
    /\ UNCHANGED <<gridObj, resizes>>

WorldAdvance ==
    /\ Ready
    /\ \E steps \in 0..MaxSteps, toroidal \in BOOLEAN :
          \E r \in Advance(world, nextWorld, steps, toroidal) :
             /\ world' = r.world
             /\ nextWorld' = r.nextWorld
             /\ \E o \in Outcomes(r) : last' = WorldCall("advance", <<steps, toroidal>>, r, o)
    /\ UNCHANGED <<gridObj, resizes>>

\* World(), World(square_size), World(width, height), World(initial_state)
InitWorld ==
    /\ \E g \in {GridDefault} \cup {GridRect(n, n) : n \in WorldSquares}
                   \cup {GridRect(s[1], s[2]) : s \in WorldShapes} \cup InitialStates :
          /\ world = WorldFrom(g).world
          /\ nextWorld = WorldFrom(g).nextWorld
    /\ gridObj = GridDefault
    /\ last = NoCall
    /\ resizes = 0

NextWorld ==
    \/ WorldDoResizeSquare
    \/ WorldDoResize
    \/ WorldStep
    \/ WorldAdvance
    \/ CallerContinues

SpecWorld == InitWorld /\ [][NextWorld]_vars

\* The caller asks for the neighbours of a coordinate of the current state; ret is
\* the one-element sequence of the count returned.
WorldCountNeighbours ==
    /\ Ready
    /\ \E x \in 0..(get_width(world) - 1), y \in 0..(get_height(world) - 1),
          toroidal \in BOOLEAN :
          \E c \in count_neighbours(world, x, y, toroidal) :
             LET r == WRes(world, nextWorld, IF c.throw THEN NoRet ELSE <<c.n>>, c.throw, c.ub)
             IN  \E o \in Outcomes(r) : last' = WorldCall("count", <<x, y, toroidal>>, r, o)
    /\ UNCHANGED <<gridObj, world, nextWorld, resizes>>

\* The World, its caller stepping it, resizing it and counting neighbours.
NextCount ==
    \/ WorldDoResizeSquare
    \/ WorldDoResize
    \/ WorldStep
    \/ WorldCountNeighbours
    \/ CallerContinues

SpecCount == InitWorld /\ [][NextCount]_vars

WorldAdvanceTwice ==
    /\ Ready
    /\ \E a \in 0..MaxSteps, b \in 0..MaxSteps, toroidal \in BOOLEAN :
          /\ a + b <= MaxSteps
          /\ \E r \in AdvanceTwice(world, nextWorld, a, b, toroidal) :
                /\ world' = r.world
                /\ nextWorld' = r.nextWorld
                /\ \E o \in Outcomes(r) :
                      last' = WorldCall("advance2", <<a, b, toroidal>>, r, o)
    /\ UNCHANGED <<gridObj, resizes>>

\* The World and a caller who advances it, once or twice in a row.
NextAdvance ==
    \/ WorldAdvance
    \/ WorldAdvanceTwice
    \/ CallerContinues

SpecAdvance == InitWorld /\ [][NextAdvance]_vars

\* The same caller, who may also resize the world between the advances.
NextAdvanceResized ==
    \/ WorldDoResizeSquare
    \/ WorldDoResize
    \/ NextAdvance

SpecAdvanceResized == InitWorld /\ [][NextAdvanceResized]_vars

\* The World that is never resized: its caller steps it and advances it.
NextLife ==
    \/ WorldStep
    \/ WorldAdvance
    \/ CallerContinues

SpecLife == InitWorld /\ [][NextLife]_vars

(***************************************************************************)
(* Zoo::glider() and a World that holds one.                               *)
(***************************************************************************)

\* Zoo::glider(): Grid glider(3), then five calls of set.
Glider ==
    LET g1 == Set(GridSquare(3), 1, 0, ALIVE).g
        g2 == Set(g1, 2, 1, ALIVE).g
        g3 == Set(g2, 0, 2, ALIVE).g
        g4 == Set(g3, 1, 2, ALIVE).g
    IN  Set(g4, 2, 2, ALIVE).g

\* The longest side of the worlds that hold the glider.
MaxSide == 8

\* How many generations one call of advance is asked for.
MaxGenerations == 4

\* Where merge puts the glider: a grid of the given width and height and the
\* corner (x0, y0), leaving at least two cells on every side of the glider.
GliderPlaces ==
    {p \in [width : 0..MaxSide, height : 0..MaxSide, x0 : 0..MaxSide, y0 : 0..MaxSide] :
        /\ p.x0 >= 2 /\ p.x0 + get_width(Glider) + 2 <= p.width
        /\ p.y0 >= 2 /\ p.y0 + get_height(Glider) + 2 <= p.height}

\* World w(g), g being Grid(width, height) after g.merge(Zoo::glider(), x0, y0, alive_only).
InitGlider ==
    /\ \E p \in GliderPlaces, alive_only \in BOOLEAN :
          \E r \in Merge(GridRect(p.width, p.height), Glider, p.x0, p.y0, alive_only) :
             /\ ~r.throw
             /\ world = WorldFrom(r.g).world
             /\ nextWorld = WorldFrom(r.g).nextWorld
    /\ gridObj = GridDefault
    /\ last = NoCall
    /\ resizes = 0

\* w.advance(steps, false)
WorldAdvanceFlat ==
    /\ Ready
    /\ \E steps \in 0..MaxGenerations :
          \E r \in Advance(world, nextWorld, steps, FALSE) :
             /\ world' = r.world
             /\ nextWorld' = r.nextWorld
             /\ \E o \in Outcomes(r) : last' = WorldCall("advance", <<steps, FALSE>>, r, o)
    /\ UNCHANGED <<gridObj, resizes>>

\* The World holding the glider and a caller who advances it without wrapping.
NextGlider ==
    \/ WorldAdvanceFlat
    \/ CallerContinues

SpecGlider == InitGlider /\ [][NextGlider]_vars

(***************************************************************************)
(* Zoo::save_binary and Zoo::load_binary.  A file is the sequence of its   *)
(* bytes, each in 0..255.  An int is written and read as its four bytes,   *)
(* least significant first; the std::bitset<8> is the function byte from   *)
(* bit positions 0..7, and the byte written from it has bit k worth 2^k.   *)
(***************************************************************************)

\* outputFile.write((char*)&n, 4)
IntBytes(n) == [k \in 1..4 |-> (n \div (256 ^ (k - 1))) % 256]

\* inputFile.read(reinterpret_cast<char*>(&n), sizeof(int)) of the four bytes b
BytesInt(b) ==
    LET top == IF b[4] >= 128 THEN b[4] - 256 ELSE b[4]
    IN  b[1] + 256 * b[2] + 65536 * b[3] + 16777216 * top

\* The char that write((char*)&byte, 1) stores for a bitset.
ByteOf(byte) ==
    byte[0] + 2 * byte[1] + 4 * byte[2] + 8 * byte[3]
       + 16 * byte[4] + 32 * byte[5] + 64 * byte[6] + 128 * byte[7]

\* int padSize = grid.get_total_cells() + (grid.get_total_cells()%8)
PadSize(g) == get_total_cells(g) + CRem(get_total_cells(g), 8)

\* One iteration of the loop of save_binary.  st is [byte, count, out, ub]:
\* the bitset, the position in it, the bytes written after the two ints.
SaveCell(g, st, i) ==
    {LET byte == [st.byte EXCEPT ![st.count] = IF v = ALIVE THEN 1 ELSE 0]
         ub == st.ub \/ ~InVec(g.grid, i)
     IN  IF st.count + 1 = 8
         THEN [byte |-> byte, count |-> 0, out |-> Append(st.out, ByteOf(byte)), ub |-> ub]
         ELSE [byte |-> byte, count |-> st.count + 1, out |-> st.out, ub |-> ub] :
        v \in ReadVec(g.grid, i)}

\* The loop of save_binary: sts are the states possible before iteration i.
RECURSIVE SaveLoop(_, _, _)
SaveLoop(g, sts, i) ==
    IF sts = {} \/ i >= PadSize(g) THEN sts
    ELSE LET after == UNION {SaveCell(g, st, i) : st \in sts}
         IN  SaveLoop(g, after, i + 1)

\* Zoo::save_binary(path, grid): the files it may leave at path.
SaveBinary(g) ==
    {[file |-> IntBytes(get_width(g)) \o IntBytes(get_height(g)) \o st.out, ub |-> st.ub] :
        st \in SaveLoop(g, {[byte |-> [k \in 0..7 |-> 0], count |-> 0,
                             out |-> <<>>, ub |-> FALSE]}, 0)}

\* if (total <= newGrid.get_total_cells())
LoadTakes(total, g) == total <= get_total_cells(g)

\* The loops of load_binary over the bytes from the ninth on and their bits,
\* n counting the bits passed: byte.to_string() read from index 7 down to 0
\* gives the bits of the byte from the least significant one.
RECURSIVE LoadLoop(_, _, _, _, _)
LoadLoop(file, g, cells, total, n) ==
    IF n >= 8 * (Len(file) - 8) THEN cells
    ELSE LET bit == (file[9 + (n \div 8)] \div (2 ^ (n % 8))) % 2
         IN  IF LoadTakes(total, g)
             THEN LoadLoop(file, g, Append(cells, IF bit = 1 THEN ALIVE ELSE DEAD),
                           total + 1, n + 1)
             ELSE LoadLoop(file, g, cells, total, n + 1)

\* The loops of load_binary that print the grid read every cell with get.
LoadPrints(g) ==
    UNION {Get(g, x, y) : x \in 0..(get_width(g) - 1), y \in 0..(get_height(g) - 1)}

\* Zoo::load_binary(path) of a file of eight bytes or more.
LoadBinary(file) ==
    LET readWidth == BytesInt(SubSeq(file, 1, 4))
        readHeight == BytesInt(SubSeq(file, 5, 8))
    IN  {IF r.throw THEN Res(r.g, NoRet, TRUE, r.ub)
         ELSE LET newGrid == [r.g EXCEPT !.grid = LoadLoop(file, r.g, <<>>, 0, 0)]
              IN  Res(newGrid, NoRet,
                      \E c \in LoadPrints(newGrid) : c.throw,
                      r.ub \/ \E c \in LoadPrints(newGrid) : c.ub) :
            r \in Resize(GridDefault, readWidth, readHeight)}

\* Largest number of cells of the grids that are saved.
MaxSavedCells == 9

SavedShapes ==
    {s \in (1..MaxSavedCells) \X (1..MaxSavedCells) : s[1] * s[2] <= MaxSavedCells}

\* The grids handed to save_binary: built by a constructor and set calls.
SavedGrids ==
    UNION {{MkGrid(s[1], s[2], cells) : cells \in [1..(s[1] * s[2]) -> CellValues]} :
              s \in SavedShapes}

InitZoo ==
    /\ gridObj \in SavedGrids
    /\ world = GridDefault
    /\ nextWorld = GridDefault
    /\ last = NoCall
    /\ resizes = 0

\* Zoo::save_binary(path, gridObj); last.ret is the file it left.
ZooSaveBinary ==
    /\ Ready
    /\ \E s \in SaveBinary(gridObj) :
          \E o \in Outcomes([throw |-> FALSE, ub |-> s.ub]) :
             last' = [op |-> "save", args |-> <<>>, pre |-> gridObj, aux |-> GridDefault,
                      ret |-> s.file, outcome |-> o, ub |-> s.ub]
    /\ UNCHANGED <<gridObj, world, nextWorld, resizes>>

\* Zoo::save_binary(path, gridObj); Grid loaded = Zoo::load_binary(path);
\* last.args holds the file and last.aux the grid loaded from it.
ZooSaveLoadBinary ==
    /\ Ready
    /\ \E s \in SaveBinary(gridObj) :
          \E r \in LoadBinary(s.file) :
             \E o \in Outcomes([throw |-> r.throw, ub |-> s.ub \/ r.ub]) :
                last' = [op |-> "saveload", args |-> s.file, pre |-> gridObj, aux |-> r.g,
                         ret |-> NoRet, outcome |-> o, ub |-> s.ub \/ r.ub]
    /\ UNCHANGED <<gridObj, world, nextWorld, resizes>>

\* The caller saving a grid, or saving and loading it again.
NextZoo ==
    \/ ZooSaveBinary
    \/ ZooSaveLoadBinary
    \/ CallerContinues

SpecZoo == InitZoo /\ [][NextZoo]_vars

(***************************************************************************)
(* The properties.  They speak of a grid the way the data model does:      *)
(* cell (x, y) of a grid is element y * width + x of its cell sequence,    *)
(* and a grid is well formed when the sequence has width * height cells.   *)
(***************************************************************************)
WellFormed(g) ==
    g.width >= 0 /\ g.height >= 0 /\ Len(g.grid) = g.width * g.height

HasCell(g, x, y) ==
    /\ 0 <= x /\ x < g.width /\ 0 <= y /\ y < g.height
    /\ y * g.width + x < Len(g.grid)

CellOf(g, x, y) == g.grid[y * g.width + x + 1]

Min(a, b) == IF a < b THEN a ELSE b

\* The call the caller is looking at, when the process is still running.
Returned(op) == last.op = op /\ last.outcome # "crash"

\* The same, for a call made on a well-formed grid that read and wrote inside
\* its vectors only: what it did is then what every build of the code does.
Clean(op) == Returned(op) /\ ~last.ub /\ WellFormed(last.pre)

\* C1: in every reachable Grid state, and for every grid crop returns, the
\* number of stored cells is width * height.
C1_CellsMatchDimensions ==
    last.outcome # "crash" =>
        /\ Len(gridObj.grid) = gridObj.width * gridObj.height
        /\ (last.op = "crop" /\ last.outcome = "ok" =>
               Len(last.ret.grid) = last.ret.width * last.ret.height)

\* C2: in every reachable World state the current grid and the next grid have
\* the same width and the same height.
C2_BuffersSameSize ==
    last.outcome # "crash" =>
        /\ world.width = nextWorld.width
        /\ world.height = nextWorld.height

\* Conway's rule, as the claim states it, on a well-formed grid.
AliveAround(g, x, y, toroidal) ==
    Cardinality({k \in 1..Len(NeighbourOffsets) :
        LET nx == x + NeighbourOffsets[k][1]
            ny == y + NeighbourOffsets[k][2]
        IN  IF toroidal
            THEN CellOf(g, nx % g.width, ny % g.height) = ALIVE
            ELSE HasCell(g, nx, ny) /\ CellOf(g, nx, ny) = ALIVE})

NextGeneration(g, toroidal) ==
    MkGrid(g.width, g.height,
           [k \in 1..(g.width * g.height) |->
               LET x == (k - 1) % g.width
                   y == (k - 1) \div g.width
                   n == AliveAround(g, x, y, toroidal)
               IN  IF \/ CellOf(g, x, y) = ALIVE /\ n \in {2, 3}
                      \/ CellOf(g, x, y) = DEAD /\ n = 3
                   THEN ALIVE ELSE DEAD])

\* C3: in every reachable World state one step(toroidal) makes the current grid
\* Conway's next generation of the previous current grid, at every coordinate.
\* (Stated of the steps that start from a well-formed current grid of at least
\* one cell and stay inside the vectors.)
C3_StepIsNextGeneration ==
    Clean("step") /\ last.pre.width > 0 /\ last.pre.height > 0 =>
        /\ last.outcome = "ok"
        /\ world = NextGeneration(last.pre, last.args[1])

\* What resize(new_w, new_h) is to leave, per the claim: the overlapping top-left
\* rectangle kept, DEAD elsewhere.
Resized(old, new_w, new_h) ==
    MkGrid(new_w, new_h,
           [k \in 1..(new_w * new_h) |->
               LET x == (k - 1) % new_w
                   y == (k - 1) \div new_w
               IN  IF x < Min(old.width, new_w) /\ y < Min(old.height, new_h)
                      /\ HasCell(old, x, y)
                   THEN CellOf(old, x, y) ELSE DEAD])

\* C4: resize(new_w, new_h) completes without error and leaves a new_w by new_h
\* grid holding the old value in the overlapping rectangle and DEAD elsewhere.
\* (Stated of the calls on a well-formed grid that stay inside the vectors.)
C4_ResizeKeepsOverlap ==
    Clean("resize2") =>
        /\ last.outcome = "ok"
        /\ gridObj = Resized(last.pre, last.args[1], last.args[2])

\* C5: resize(n) leaves the grid in the state resize(n, n) would: width n,
\* height n, n * n cells, the overlap kept and the rest DEAD.
\* (Stated of the calls on a well-formed grid that stay inside the vectors.)
C5_SquareResizeIsResize ==
    Clean("resize1") =>
        /\ last.outcome = "ok"
        /\ gridObj.width = last.args[1]
        /\ gridObj.height = last.args[1]
        /\ \E r \in Resize(last.pre, last.args[1], last.args[1]) :
              ~r.throw /\ gridObj = r.g
        /\ gridObj = Resized(last.pre, last.args[1], last.args[1])

ValidCoordinate(g, x, y) == 0 <= x /\ x < g.width /\ 0 <= y /\ y < g.height

\* C6: get, set and the indexing operator fail with an error at every coordinate
\* that is not 0 <= x < width and 0 <= y < height, and set then changes nothing.
\* (Stated of the calls on a well-formed grid that stay inside the vector.)
C6_InvalidCoordinateFails ==
    /\ Clean("get") \/ Clean("set") \/ Clean("index")
    /\ ~ValidCoordinate(last.pre, last.args[1], last.args[2])
    => /\ last.outcome = "throw"
       /\ gridObj = last.pre

\* The windows crop is to reject: not contained in the source, or of negative size.
BadWindow(g, x0, y0, x1, y1) ==
    \/ x0 < 0 \/ y0 < 0 \/ x1 > g.width \/ y1 > g.height
    \/ x1 < x0 \/ y1 < y0

\* C7: crop fails with an error for every window that is not contained in the
\* source or has negative size; it returns no grid then.
\* (Stated of the calls on a well-formed grid that stay inside the vector.)
C7_BadWindowFails ==
    /\ Clean("crop")
    /\ BadWindow(last.pre, last.args[1], last.args[2], last.args[3], last.args[4])
    => last.outcome = "throw"

GoodWindow(g, x0, y0, x1, y1) ==
    0 <= x0 /\ x0 <= x1 /\ x1 <= g.width /\ 0 <= y0 /\ y0 <= y1 /\ y1 <= g.height

\* What crop is to do for a good window.  Equal grids have the same width, the
\* same height and the same cell at every coordinate.
CropMeetsContract ==
    LET x0 == last.args[1]
        y0 == last.args[2]
        x1 == last.args[3]
        y1 == last.args[4]
    IN  /\ last.outcome = "ok"
        /\ gridObj = last.pre
        /\ last.ret.width = x1 - x0
        /\ last.ret.height = y1 - y0
        /\ Len(last.ret.grid) = (x1 - x0) * (y1 - y0)
        /\ \A i \in 0..(x1 - x0 - 1), j \in 0..(y1 - y0 - 1) :
              /\ HasCell(last.pre, x0 + i, y0 + j)
              /\ CellOf(last.ret, i, j) = CellOf(last.pre, x0 + i, y0 + j)

\* C8: for every grid and every window 0 <= x0 <= x1 <= width, 0 <= y0 <= y1 <=
\* height, crop returns the (x1-x0) by (y1-y0) grid whose cell (i, j) is source
\* cell (x0+i, y0+j) and leaves the source unchanged; the full window returns a
\* grid equal to the source.
C8_CropExtractsWindow ==
    /\ Returned("crop")
    /\ GoodWindow(last.pre, last.args[1], last.args[2], last.args[3], last.args[4])
    => CropMeetsContract

\* C8, on the grids whose cell sequence has width * height cells.
C8_CropExtractsWindowOfWellFormed ==
    /\ Returned("crop")
    /\ WellFormed(last.pre)
    /\ GoodWindow(last.pre, last.args[1], last.args[2], last.args[3], last.args[4])
    => CropMeetsContract

\* The merges that are to fail: a negative corner, or a non-empty other of which
\* some cell lands outside the destination.
MergeMustFail(g, other, x0, y0) ==
    \/ x0 < 0
    \/ y0 < 0
    \/ /\ other.width > 0 /\ other.height > 0
       /\ (x0 + other.width > g.width \/ y0 + other.height > g.height)

\* C9: merge fails with an error whenever x0 < 0, y0 < 0 or a cell of a
\* non-empty other would land outside the destination, for both values of
\* alive_only.
C9_MergeOutsideFails ==
    /\ last.op = "merge"
    /\ MergeMustFail(last.pre, last.aux, last.args[1], last.args[2])
    => last.outcome = "throw"

\* C9 acts: a merge of a non-empty other at a non-negative corner, alive_only
\* set, one column too far to the right, has thrown.
C9_Witness ==
    /\ last.op = "merge"
    /\ last.outcome = "throw"
    /\ last.args[3] = TRUE
    /\ last.args[1] >= 0 /\ last.args[2] >= 0
    /\ last.aux.width > 0 /\ last.aux.height > 0
    /\ last.args[1] + last.aux.width = last.pre.width + 1
    /\ last.args[2] + last.aux.height <= last.pre.height

MergeFits(g, other, x0, y0) ==
    x0 >= 0 /\ y0 >= 0 /\ x0 + other.width <= g.width /\ y0 + other.height <= g.height

\* What an overwriting merge that fits is to do.
MergeOverwrites ==
    LET x0 == last.args[1]
        y0 == last.args[2]
        other == last.aux
        pre == last.pre
        under == {y * pre.width + x + 1 :
                     x \in x0..(x0 + other.width - 1), y \in y0..(y0 + other.height - 1)}
    IN  /\ last.outcome = "ok"
        /\ gridObj.width = pre.width
        /\ gridObj.height = pre.height
        /\ Len(gridObj.grid) = Len(pre.grid)
        /\ \A i \in 0..(other.width - 1), j \in 0..(other.height - 1) :
              /\ HasCell(gridObj, x0 + i, y0 + j)
              /\ CellOf(gridObj, x0 + i, y0 + j) = CellOf(other, i, j)
        /\ \A k \in 1..Len(pre.grid) : k \notin under => gridObj.grid[k] = pre.grid[k]

\* C10: after a merge(other, x0, y0, false) that fits, every destination cell
\* (x0+i, y0+j) under other equals other's cell (i, j), and every other cell,
\* the width and the height are unchanged.
C10_MergeOverwritesCovered ==
    /\ Returned("merge")
    /\ last.args[3] = FALSE
    /\ MergeFits(last.pre, last.aux, last.args[1], last.args[2])
    => MergeOverwrites

\* C10, on the destinations whose cell sequence has width * height cells.
C10_MergeOverwritesCoveredOfWellFormed ==
    /\ Returned("merge")
    /\ last.args[3] = FALSE
    /\ WellFormed(last.pre)
    /\ MergeFits(last.pre, last.aux, last.args[1], last.args[2])
    => MergeOverwrites

\* What a merge with alive_only set that fits is to do: a covered cell is ALIVE
\* afterwards iff it was ALIVE or other's cell is; no cell anywhere goes from
\* ALIVE to DEAD.
MergeAddsLife ==
    LET x0 == last.args[1]
        y0 == last.args[2]
        other == last.aux
        pre == last.pre
    IN  /\ last.outcome = "ok"
        /\ gridObj.width = pre.width
        /\ gridObj.height = pre.height
        /\ Len(gridObj.grid) = Len(pre.grid)
        /\ \A i \in 0..(other.width - 1), j \in 0..(other.height - 1) :
              /\ HasCell(pre, x0 + i, y0 + j)
              /\ CellOf(gridObj, x0 + i, y0 + j) = ALIVE
                    <=> (CellOf(pre, x0 + i, y0 + j) = ALIVE \/ CellOf(other, i, j) = ALIVE)
        /\ \A k \in 1..Len(pre.grid) : pre.grid[k] = ALIVE => gridObj.grid[k] = ALIVE
        /\ get_alive_cells(gridObj) >= get_alive_cells(pre)

\* C11: after a merge(other, x0, y0, true) that fits, each covered destination
\* cell is ALIVE iff it was ALIVE before or other's cell is ALIVE; no cell goes
\* from ALIVE to DEAD and the alive count does not decrease.
C11_MergeAliveOnlyAddsLife ==
    /\ Returned("merge")
    /\ last.args[3] = TRUE
    /\ MergeFits(last.pre, last.aux, last.args[1], last.args[2])
    => MergeAddsLife

\* C11, on the destinations whose cell sequence has width * height cells.
C11_MergeAliveOnlyAddsLifeOfWellFormed ==
    /\ Returned("merge")
    /\ last.args[3] = TRUE
    /\ WellFormed(last.pre)
    /\ MergeFits(last.pre, last.aux, last.args[1], last.args[2])
    => MergeAddsLife

\* What rotate(1) (clockwise) and rotate(-1) are to return for a w by h source:
\* an h-wide, w-high grid whose cell (y, x) is the source cell the mapping names.
QuarterTurnOf(src, ret, clockwise) ==
    LET w == src.width
        h == src.height
    IN  /\ ret.width = h
        /\ ret.height = w
        /\ \A x \in 0..(w - 1), y \in 0..(h - 1) :
              LET sx == IF clockwise THEN x ELSE w - 1 - x
                  sy == IF clockwise THEN h - 1 - y ELSE y
              IN  /\ HasCell(src, sx, sy)
                  /\ HasCell(ret, y, x)
                  /\ CellOf(ret, y, x) = CellOf(src, sx, sy)

\* C12: rotate(1) returns the h-wide, w-high grid whose cell (y, x) is source
\* cell (x, h-1-y), rotate(-1) the one whose cell (y, x) is source cell
\* (w-1-x, y), and the source is unchanged.
C12_QuarterTurnsMapCells ==
    /\ Returned("rotate")
    /\ last.args[1] \in {1, -1}
    => /\ last.outcome = "ok"
       /\ gridObj = last.pre
       /\ QuarterTurnOf(last.pre, last.ret, last.args[1] = 1)

\* C12, on the sources whose cell sequence has width * height cells.
C12_QuarterTurnsMapCellsOfWellFormed ==
    /\ Returned("rotate")
    /\ last.args[1] \in {1, -1}
    /\ WellFormed(last.pre)
    => /\ last.outcome = "ok"
       /\ gridObj = last.pre
       /\ QuarterTurnOf(last.pre, last.ret, last.args[1] = 1)

\* C13: rotate(k) is rotate(k mod 4), the remainder taken in 0..3, for every
\* integer k: the two calls have the same possible results, the grid returned
\* is one rotate(k mod 4) returns, and when k mod 4 = 0 it is the source itself.
C13_RotateTakesTurnsModFour ==
    Returned("rotate") =>
        LET k == last.args[1]
            m == k % 4
        IN  /\ Rotate(last.pre, k) = Rotate(last.pre, m)
            /\ \E r \in Rotate(last.pre, m) :
                  ~r.throw /\ last.outcome = "ok" /\ r.ret = last.ret
            /\ (m = 0 => last.ret = last.pre)

\* C13 acts: rotate(-3) of a grid that is not square and has an ALIVE and a
\* DEAD cell has returned.
C13_Witness ==
    /\ last.op = "rotate"
    /\ last.outcome = "ok"
    /\ last.args[1] = -3
    /\ last.pre.width # last.pre.height
    /\ \E i, j \in 1..Len(last.pre.grid) :
          last.pre.grid[i] = ALIVE /\ last.pre.grid[j] = DEAD

\* Equal grids: the same width, the same height and the same cell at every
\* coordinate.
SameGrid(g1, g2) ==
    /\ g1.width = g2.width
    /\ g1.height = g2.height
    /\ \A x \in 0..(g1.width - 1), y \in 0..(g1.height - 1) :
          /\ HasCell(g1, x, y)
          /\ HasCell(g2, x, y)
          /\ CellOf(g1, x, y) = CellOf(g2, x, y)

\* What g.rotate(a).rotate(b) is to return: what g.rotate(a + b) returns; and
\* two more quarter turns after two are to give the source back.
RotationsAdd ==
    LET a == last.args[1]
        b == last.args[2]
    IN  /\ last.outcome = "ok"
        /\ \A r \in Rotate(last.pre, a + b) : ~r.throw /\ SameGrid(last.ret, r.ret)
        /\ (a = 1 /\ b = 1 =>
               \A q \in RotateTwice(last.ret, 1, 1) :
                  ~q.throw /\ SameGrid(q.ret, last.pre))

\* C14: rotations add up: g.rotate(a).rotate(b) equals g.rotate(a + b) in width,
\* height and every cell, for every grid and all integers a and b; rotate(1)
\* four times gives a grid equal to the original.
C14_RotationsCompose ==
    Returned("rotate2") => RotationsAdd

\* C14, on the grids whose cell sequence has width * height cells.
C14_RotationsComposeOfWellFormed ==
    Returned("rotate2") /\ WellFormed(last.pre) => RotationsAdd

\* C15: resize(W, H) with W >= w and H >= h followed by resize(w, h) leaves a
\* grid equal to the original w by h grid in width, height and every cell.
C15_GrowThenShrinkRestores ==
    Returned("growshrink") =>
        /\ last.outcome = "ok"
        /\ SameGrid(gridObj, last.pre)

\* C15, on the grids whose cell sequence has width * height cells.
C15_GrowThenShrinkRestoresOfWellFormed ==
    Returned("growshrink") /\ WellFormed(last.pre) =>
        /\ last.outcome = "ok"
        /\ gridObj = last.pre

\* The coordinates count_neighbours(x, y, false) is to look at: those of the 8
\* around (x, y) that lie inside [0, width) x [0, height).
InsideNeighbours(g, x, y) ==
    {c \in {<<x + NeighbourOffsets[k][1], y + NeighbourOffsets[k][2]>> :
               k \in 1..Len(NeighbourOffsets)} :
        0 <= c[1] /\ c[1] < g.width /\ 0 <= c[2] /\ c[2] < g.height}

\* What count_neighbours(x, y, false) is to return.
CountsInside ==
    LET g == last.pre
        x == last.args[1]
        y == last.args[2]
    IN  /\ last.outcome = "ok"
        /\ last.ret[1] \in 0..8
        /\ \A c \in InsideNeighbours(g, x, y) : HasCell(g, c[1], c[2])
        /\ last.ret[1] = Cardinality({c \in InsideNeighbours(g, x, y) :
                                      CellOf(g, c[1], c[2]) = ALIVE})

\* C16: for an in-bounds (x, y), count_neighbours(x, y, false) returns the number
\* of ALIVE cells among the surrounding coordinates inside the grid, a number in
\* 0..8 that leaves out the centre, and raises no error at edges and corners.
C16_CountsNeighboursInside ==
    Returned("count") /\ last.args[3] = FALSE => CountsInside

\* C16, on the worlds whose current cell sequence has width * height cells.
C16_CountsNeighboursInsideOfWellFormed ==
    Returned("count") /\ last.args[3] = FALSE /\ WellFormed(last.pre) => CountsInside

\* What count_neighbours(x, y, true) is to return: the number of offsets other
\* than (0, 0) whose coordinate, wrapped on each axis, holds an ALIVE cell.
CountsWrapped ==
    LET g == last.pre
        x == last.args[1]
        y == last.args[2]
        wx(k) == (x + NeighbourOffsets[k][1]) % g.width
        wy(k) == (y + NeighbourOffsets[k][2]) % g.height
    IN  /\ last.outcome = "ok"
        /\ last.ret[1] \in 0..8
        /\ \A k \in 1..Len(NeighbourOffsets) : HasCell(g, wx(k), wy(k))
        /\ last.ret[1] = Cardinality({k \in 1..Len(NeighbourOffsets) :
                                         CellOf(g, wx(k), wy(k)) = ALIVE})

\* C17: on a world at least 1 wide and 1 high, for an in-bounds (x, y),
\* count_neighbours(x, y, true) is the number of offsets (dx, dy) other than
\* (0, 0) for which the cell at ((x+dx) mod width, (y+dy) mod height) is ALIVE,
\* a number in 0..8.
C17_CountsNeighboursWrapped ==
    Returned("count") /\ last.args[3] = TRUE => CountsWrapped

\* C17, on the worlds whose current cell sequence has width * height cells.
C17_CountsNeighboursWrappedOfWellFormed ==
    Returned("count") /\ last.args[3] = TRUE /\ WellFormed(last.pre) => CountsWrapped

\* How a World call ended, as its caller can tell: the two grids afterwards
\* and whether an exception left the call.
Ends(rs) == {<<r.world, r.nextWorld, r.throw>> : r \in rs}

\* k calls of step(toroidal) in a row, made by the caller one after the other
\* from the Worlds rs; a step that throws ends the row.
RECURSIVE StepsInARow(_, _, _)
StepsInARow(rs, k, toroidal) ==
    IF k = 0 THEN rs
    ELSE StepsInARow(UNION {IF r.throw THEN {r}
                            ELSE Step(r.world, r.nextWorld, toroidal) : r \in rs},
                     k - 1, toroidal)

\* C18: for every World the caller can make a call on, every k and either flag
\* t, advance(k, t) ends as k consecutive step(t) calls end, and advance(a, t)
\* followed by advance(b, t) ends as advance(a + b, t) ends; an advance(0, t)
\* that has returned changed nothing, and an advance(k, t) that has returned
\* without touching memory outside the vectors left the World k steps leave.
C18_AdvanceIsRepeatedStep ==
    /\ Ready =>
          \A k \in 0..MaxSteps, t \in BOOLEAN :
             /\ Ends(Advance(world, nextWorld, k, t))
                   = Ends(StepsInARow({WRes(world, nextWorld, NoRet, FALSE, FALSE)}, k, t))
             /\ \A b \in 0..(MaxSteps - k) :
                   Ends(AdvanceTwice(world, nextWorld, k, b, t))
                      = Ends(Advance(world, nextWorld, k + b, t))
    /\ Returned("advance") /\ last.args[1] = 0 =>
          world = last.pre /\ nextWorld = last.aux /\ last.outcome = "ok"
    /\ Returned("advance") /\ ~last.ub =>
          <<world, nextWorld, last.outcome = "throw">>
             \in Ends(StepsInARow({WRes(last.pre, last.aux, NoRet, FALSE, FALSE)},
                                  last.args[1], last.args[2]))
    /\ Returned("advance2") /\ ~last.ub =>
          <<world, nextWorld, last.outcome = "throw">>
             \in Ends(Advance(last.pre, last.aux, last.args[1] + last.args[2], last.args[3]))

\* C18 acts: an advance of two steps has returned and changed the current grid.
C18_Witness ==
    /\ last.op = "advance"
    /\ last.outcome = "ok"
    /\ last.args[1] = 2
    /\ world # last.pre

\* The ALIVE cells of g as (x, y) pairs.
AliveCells(g) ==
    {c \in (0..(g.width - 1)) \X (0..(g.height - 1)) : g.grid[get_index(g, c[1], c[2]) + 1] = ALIVE}

\* The cells of the glider moved by (dx, dy).
GliderCellsAt(dx, dy) == {<<c[1] + dx, c[2] + dy>> : c \in AliveCells(Glider)}

\* g is all DEAD but for the glider with its corner at (x0, y0), two or more
\* DEAD cells away from every side.
HoldsGliderWithMargin(g, x0, y0) ==
    /\ Len(g.grid) = g.width * g.height
    /\ x0 >= 2 /\ x0 + get_width(Glider) + 2 <= g.width
    /\ y0 >= 2 /\ y0 + get_height(Glider) + 2 <= g.height
    /\ AliveCells(g) = GliderCellsAt(x0, y0)
    /\ \A i \in 1..Len(g.grid) : g.grid[i] \in CellValues

\* C19: when a world is all DEAD but for a glider merged with at least two
\* DEAD cells of margin on every side, advance(4, false) returns normally
\* and leaves as ALIVE cells exactly the five cells of the glider moved by
\* (+1, +1), in a world of the same width and height.
C19_GliderMovesDiagonally ==
    \A x0 \in 0..MaxSide, y0 \in 0..MaxSide :
       (/\ last.op = "advance"
        /\ last.args = <<4, FALSE>>
        /\ HoldsGliderWithMargin(last.pre, x0, y0))
       => /\ last.outcome = "ok"
          /\ ~last.ub
          /\ world.width = last.pre.width
          /\ world.height = last.pre.height
          /\ Len(world.grid) = Len(last.pre.grid)
          /\ AliveCells(world) = GliderCellsAt(x0 + 1, y0 + 1)
          /\ Cardinality(AliveCells(world)) = 5
          /\ \A i \in 1..Len(world.grid) : world.grid[i] \in CellValues

C19_Witness ==
    /\ last.op = "advance"
    /\ last.args = <<4, FALSE>>
    /\ last.outcome = "ok"
    /\ \E x0 \in 0..MaxSide, y0 \in 0..MaxSide :
          /\ HoldsGliderWithMargin(last.pre, x0, y0)
          /\ AliveCells(world) = GliderCellsAt(x0 + 1, y0 + 1)
    /\ world # last.pre

\* C20: whenever set, resize(n), resize(w, h) or merge ends by raising an
\* error, the grid's width, its height and every cell are as they were
\* before the call.
C20_ErrorLeavesGridUnchanged ==
    last.op \in {"set", "resize1", "resize2", "merge"} /\ last.outcome = "throw"
       => /\ gridObj.width = last.pre.width
          /\ gridObj.height = last.pre.height
          /\ gridObj.grid = last.pre.grid

\* The same of set and merge alone, which test their arguments before they
\* write anything.
C20_SetAndMergeErrorsLeaveGridUnchanged ==
    last.op \in {"set", "merge"} /\ last.outcome = "throw" /\ WellFormed(last.pre)
       => gridObj = last.pre

\* Every stored cell of g is DEAD or ALIVE.
OnlyCells(g) == \A i \in 1..Len(g.grid) : g.grid[i] \in CellValues

\* C21: in every reachable state every cell stored in the Grid and in the
\* World's current grid is DEAD or ALIVE and nothing else.
C21_CellsAreDeadOrAlive == OnlyCells(gridObj) /\ OnlyCells(world)

\* The same of the Grid and of a World that was never resized.
C21_CellsAreDeadOrAliveUnlessResized ==
    /\ OnlyCells(gridObj)
    /\ resizes = 0 => OnlyCells(world)

\* The cells of g packed eight to a byte, the first cell in the least
\* significant bit, the last byte padded with 0 bits.
PackedCells(g) ==
    [i \in 1..((get_total_cells(g) + 7) \div 8) |->
        ByteOf([k \in 0..7 |->
                  IF 8 * (i - 1) + k < get_total_cells(g) /\ g.grid[8 * (i - 1) + k + 1] = ALIVE
                  THEN 1 ELSE 0])]

\* The binary file format: the width and the height as 4-byte ints, then the cells.
Encoded(g) == IntBytes(get_width(g)) \o IntBytes(get_height(g)) \o PackedCells(g)

\* What C22 says of the call recorded in last.
BinaryRoundTrips ==
    /\ Returned("save") =>
          /\ Len(last.ret) = 8 + ((get_total_cells(last.pre) + 7) \div 8)
          /\ last.ret = Encoded(last.pre)
    /\ Returned("saveload") =>
          /\ last.outcome = "ok"
          /\ last.args = Encoded(last.pre)
          /\ last.aux.width = last.pre.width
          /\ last.aux.height = last.pre.height
          /\ Len(last.aux.grid) = last.pre.width * last.pre.height
          /\ last.aux.grid = last.pre.grid

\* C22: for every grid of positive width and height save_binary writes
\* exactly 8 + ceil(width * height / 8) bytes, the two dimensions and the
\* cells packed from the least significant bit with zero padding, and
\* load_binary of those bytes returns a grid of the same width, height and
\* cells, its cell sequence exactly width * height long.
C22_BinaryRoundTrip == BinaryRoundTrips

\* The same of the grids whose number of cells is a multiple of 8.
C22_BinaryRoundTripOfWholeBytes ==
    get_total_cells(last.pre) % 8 = 0 => BinaryRoundTrips /\ ~last.ub

\* World(g) is one of the initial states: its current grid is g and its next
\* buffer is g too.
Constructible(g) == g \in InitialStates

\* The current grids step(toroidal) can leave when called on World(g).
StepOfFresh(g, toroidal) == {r.world : r \in Step(g, g, toroidal)}

\* C23: the grid step produces depends on the current grid only.  Two
\* reachable states with equal current grids and different next buffers give
\* equal current grids after step with the same flag; stated of a state
\* whose current grid g is constructible, against the reachable state
\* World(g): the step returns, and leaves what it leaves when called on
\* World(g).
C23_StepDependsOnCurrentOnly ==
    last.op = "step" /\ Constructible(last.pre) /\ last.aux # last.pre =>
        /\ last.outcome = "ok"
        /\ world \in StepOfFresh(last.pre, last.args[1])

\* The same of the worlds that were never resized: their next buffer is
\* their current grid before every call.
C23_StepDependsOnCurrentOnlyUnlessResized ==
    resizes = 0 =>
        /\ Ready => nextWorld = world
        /\ last.op = "step" /\ Constructible(last.pre) =>
              /\ last.outcome = "ok"
              /\ last.aux = last.pre
              /\ world \in StepOfFresh(last.pre, last.args[1])

\* C24: step exchanges the two buffers: right after a step that returned,
\* the next buffer holds exactly the cells the current grid held before the
\* step, and the current grid holds the generation the step computed in
\* the next buffer.
C24_StepSwapsBuffers ==
    last.op = "step" /\ last.outcome = "ok" =>
        /\ nextWorld.grid = last.pre.grid
        /\ nextWorld.width = last.pre.width
        /\ nextWorld.height = last.pre.height

\* What step does instead: it copies, and both buffers hold the same cells
\* after it.
C24_StepCopiesNextToCurrent ==
    last.op = "step" /\ last.outcome = "ok" => nextWorld = world

\* Conway's k-th generation after g.
RECURSIVE Generations(_, _, _)
Generations(g, k, toroidal) ==
    IF k = 0 THEN g ELSE Generations(NextGeneration(g, toroidal), k - 1, toroidal)

KeepsDimensions ==
    /\ get_width(world) = get_width(last.pre)
    /\ get_height(world) = get_height(last.pre)
    /\ get_total_cells(world) = get_total_cells(last.pre)

\* C26: step and advance never change the world's dimensions: after
\* step(t) or advance(k, t) the width, the height and the total number of
\* cells of the World are what they were before the call, also when the call
\* follows a resize to other dimensions.
C26_StepKeepsDimensions ==
    (Returned("step") \/ Returned("advance")) => KeepsDimensions

\* The same of the worlds that were never resized.
C26_StepKeepsDimensionsUnlessResized ==
    resizes = 0 /\ (Returned("step") \/ Returned("advance")) => KeepsDimensions

====
